---- MODULE Spec2Model ----
(***************************************************************************)
(* Model of server.js: the admin authentication of the resume mail API.   *)
(*                                                                         *)
(* JavaScript strings are TLA+ strings over printable ASCII (32..126,      *)
(* less the grave accent); a character is a one-character string.         *)
(* Buffers are sequences of byte values 0..255.  Where a decoded byte is   *)
(* outside printable ASCII the text holds the form feed (NonText).         *)
(***************************************************************************)
EXTENDS Integers, Sequences, FiniteSets, TLC

\* const x = v; Op(x): the value is computed once, then used.
With(v, Op(_)) == CHOOSE r \in {Op(x) : x \in {v}} : TRUE

(***************************************************************************)
(* String primitives of the JavaScript runtime.                            *)
(***************************************************************************)
\* Codes 32..95 and 97..126 (a TLA+ string cannot hold the grave accent, 96).
AsciiLow ==
  " !\"#$%&'()*+,-./0123456789:;<=>?@ABCDEFGHIJKLMNOPQRSTUVWXYZ[\\]^_"

AsciiHigh == "abcdefghijklmnopqrstuvwxyz{|}~"

NonText == "\f"

Char(s, i) == SubSeq(s, i, i)

\* String.prototype.indexOf for a one-character needle, 1-based; 0 when absent.
IndexOf(s, c) ==
  With(s, LAMBDA t :
    With({i \in 1..Len(t) : Char(t, i) = c}, LAMBDA hits :
      IF hits = {} THEN 0 ELSE CHOOSE i \in hits : \A j \in hits : i <= j))

Includes(s, c) == IndexOf(s, c) # 0

StartsWith(s, p) == With(s, LAMBDA t : Len(t) >= Len(p) /\ SubSeq(t, 1, Len(p)) = p)

\* String.prototype.split for a one-character separator.
RECURSIVE Split(_, _)
Split(s, sep) ==
  With(s, LAMBDA t :
    With(IndexOf(t, sep), LAMBDA idx :
      IF idx = 0 THEN <<t>>
      ELSE <<SubSeq(t, 1, idx - 1)>> \o Split(SubSeq(t, idx + 1, Len(t)), sep)))

\* String.prototype.trim (the only white space of the alphabet is the space).
RECURSIVE Trim(_)
Trim(s) ==
  With(s, LAMBDA t :
    IF t = "" THEN ""
    ELSE IF Char(t, 1) = " " THEN Trim(SubSeq(t, 2, Len(t)))
    ELSE IF Char(t, Len(t)) = " " THEN Trim(SubSeq(t, 1, Len(t) - 1))
    ELSE t)

\* The code of every character of the alphabet, and the character of every
\* byte value, as tables.
CharCodes ==
  [c \in {Char(AsciiLow, i) : i \in 1..Len(AsciiLow)} |-> 31 + IndexOf(AsciiLow, c)]
  @@ [c \in {Char(AsciiHigh, i) : i \in 1..Len(AsciiHigh)} |-> 96 + IndexOf(AsciiHigh, c)]

CodeChars ==
  [b \in 0..255 |->
     IF b >= 32 /\ b <= 95 THEN Char(AsciiLow, b - 31)
     ELSE IF b >= 97 /\ b <= 126 THEN Char(AsciiHigh, b - 96)
     ELSE NonText]
  @@ <<>>

CharCode(c) == With(c, LAMBDA ch : IF ch \in DOMAIN CharCodes THEN CharCodes[ch] ELSE 12)

FromCharCode(b) == CodeChars[b]

\* Buffer.from(string): the bytes of the text.
BufferFrom(s) == With(s, LAMBDA t : [i \in 1..Len(t) |-> CharCode(Char(t, i))] \o <<>>)

\* The text of a sequence of characters.
RECURSIVE JoinRange(_, _, _)
JoinRange(cs, lo, hi) ==
  IF lo > hi THEN ""
  ELSE IF lo = hi THEN cs[lo]
  ELSE JoinRange(cs, lo, (lo + hi) \div 2) \o JoinRange(cs, (lo + hi) \div 2 + 1, hi)

Join(cs) == With(cs \o <<>>, LAMBDA v : JoinRange(v, 1, Len(v)))

\* buffer.toString("utf8")
BufferToString(bytes) ==
  With(bytes, LAMBDA b : Join([i \in 1..Len(b) |-> FromCharCode(b[i])]))

UpperCase == "ABCDEFGHIJKLMNOPQRSTUVWXYZ"

LowerCase == "abcdefghijklmnopqrstuvwxyz"

\* String.prototype.toLowerCase
ToLowerCase(s) ==
  With(s, LAMBDA t :
    Join([i \in 1..Len(t) |->
            With(IndexOf(UpperCase, Char(t, i)), LAMBDA k :
              IF k = 0 THEN Char(t, i) ELSE Char(LowerCase, k))]))

(***************************************************************************)
(* base64 and base64url, as Node encodes and (leniently) decodes them.     *)
(***************************************************************************)
Base64Alphabet ==
  "ABCDEFGHIJKLMNOPQRSTUVWXYZabcdefghijklmnopqrstuvwxyz0123456789+/"

Base64UrlAlphabet ==
  "ABCDEFGHIJKLMNOPQRSTUVWXYZabcdefghijklmnopqrstuvwxyz0123456789-_"

\* The 6-bit value of every character of either alphabet, as a table.
SextetValues ==
  [c \in {Char(Base64Alphabet, i) : i \in 1..Len(Base64Alphabet)} |->
     IndexOf(Base64Alphabet, c) - 1]
  @@ [c \in {"-", "_"} |-> IndexOf(Base64UrlAlphabet, c) - 1]

\* The 6-bit value of a character; -1 for a character of neither alphabet.
SextetOf(c) ==
  With(c, LAMBDA ch : IF ch \in DOMAIN SextetValues THEN SextetValues[ch] ELSE -1)

\* The sextets of a text: characters outside the alphabets are skipped and
\* the first padding character ends the data.
Sextets(s) ==
  With(s, LAMBDA t :
    With(IndexOf(t, "="), LAMBDA pad :
      With(IF pad = 0 THEN t ELSE SubSeq(t, 1, pad - 1), LAMBDA data :
        SelectSeq([i \in 1..Len(data) |-> SextetOf(Char(data, i))] \o <<>>,
                  LAMBDA v : v >= 0))))

\* The bytes of a sequence of sextets: every full group of 8 bits.
SextetsToBytes(sextets) ==
  With(sextets, LAMBDA q :
    [j \in 1..((Len(q) * 6) \div 8) |->
       With(8 * (j - 1), LAMBDA off :
         With(off \div 6 + 1, LAMBDA i :
           CASE off % 6 = 0 -> q[i] * 4 + q[i + 1] \div 16
             [] off % 6 = 2 -> (q[i] % 16) * 16 + q[i + 1] \div 4
             [] OTHER -> (q[i] % 4) * 64 + q[i + 1]))] \o <<>>)

\* Buffer.from(text, "base64") and Buffer.from(text, "base64url"): one decoder.
Base64Decode(s) == SextetsToBytes(Sextets(s))

\* buffer.toString("base64url"): unpadded, the last sextet zero-filled.
Base64UrlEncode(bytes) ==
  With(bytes, LAMBDA b :
    LET at(i) == IF i <= Len(b) THEN b[i] ELSE 0
        sextet(k) ==
          With(6 * (k - 1), LAMBDA off :
            With(off \div 8 + 1, LAMBDA i :
              CASE off % 8 = 0 -> at(i) \div 4
                [] off % 8 = 6 -> (at(i) % 4) * 16 + at(i + 1) \div 16
                [] off % 8 = 4 -> (at(i) % 16) * 4 + at(i + 1) \div 64
                [] OTHER -> at(i) % 64))
    IN Join([k \in 1..((Len(b) * 8 + 5) \div 6) |-> Char(Base64UrlAlphabet, sextet(k) + 1)]))

(***************************************************************************)
(* JSON, for the values a session payload can decode to: null, a           *)
(* non-negative integer, a string without escapes, and a flat object of    *)
(* such members.  Any other text is a SyntaxError (JsonThrow).             *)
(***************************************************************************)
Digits == "0123456789"

RECURSIVE NumToStr(_)
NumToStr(number) ==
  With(number, LAMBDA n :
    IF n < 10 THEN Char(Digits, n + 1)
    ELSE NumToStr(n \div 10) \o Char(Digits, (n % 10) + 1))

RECURSIVE StrToNum(_)
StrToNum(s) ==
  With(s, LAMBDA t :
    IF t = "" THEN 0
    ELSE StrToNum(SubSeq(t, 1, Len(t) - 1)) * 10 + (IndexOf(Digits, Char(t, Len(t))) - 1))

IsNumberText(s) ==
  /\ s # ""
  /\ \A i \in 1..Len(s) : Includes(Digits, Char(s, i))
  /\ (Len(s) > 1 => Char(s, 1) # "0")

IsStringText(s) ==
  /\ Len(s) >= 2
  /\ Char(s, 1) = "\"" /\ Char(s, Len(s)) = "\""
  /\ \A i \in 2..(Len(s) - 1) : Char(s, i) \notin {"\"", "\\", NonText}

JsonThrow == [kind |-> "throw"]

JsonScalar(s) ==
  With(s, LAMBDA t :
    IF t = "null" THEN [kind |-> "null"]
    ELSE IF IsNumberText(t) THEN [kind |-> "number", num |-> StrToNum(t)]
    ELSE IF IsStringText(t) THEN [kind |-> "string", str |-> SubSeq(t, 2, Len(t) - 1)]
    ELSE JsonThrow)

\* One "key":value member of an object.
JsonMember(member) ==
  With(member, LAMBDA m :
    With(IndexOf(m, ":"), LAMBDA idx :
      With(JsonScalar(Trim(SubSeq(m, 1, idx - 1))), LAMBDA k :
        With(JsonScalar(Trim(SubSeq(m, idx + 1, Len(m)))), LAMBDA v :
          IF idx = 0 \/ k.kind # "string" \/ v.kind = "throw" THEN JsonThrow
          ELSE [kind |-> "member", key |-> k.str, value |-> v]))))

\* The object of a sequence of members; a later member with the same key wins.
JsonObject(mem) ==
  IF \E i \in 1..Len(mem) : mem[i].kind = "throw" THEN JsonThrow
  ELSE [kind |-> "object",
        fields |->
          [k \in {mem[i].key : i \in 1..Len(mem)} |->
             mem[CHOOSE i \in 1..Len(mem) :
                   mem[i].key = k /\ \A j \in (i + 1)..Len(mem) : mem[j].key # k].value]
          @@ <<>>]

JSONparse(text) ==
  With(Trim(text), LAMBDA t :
    IF Len(t) >= 2 /\ Char(t, 1) = "{" /\ Char(t, Len(t)) = "}"
    THEN With(Trim(SubSeq(t, 2, Len(t) - 1)), LAMBDA inner :
           IF inner = "" THEN [kind |-> "object", fields |-> <<>>]
           ELSE With(Split(inner, ","), LAMBDA parts :
                  With([i \in 1..Len(parts) |-> JsonMember(parts[i])] \o <<>>, JsonObject)))
    ELSE JsonScalar(t))

\* JSON.stringify of the payload object { exp, typ }.
JSONstringify(payload) ==
  "{\"exp\":" \o NumToStr(payload.exp) \o ",\"typ\":\"" \o payload.typ \o "\"}"

Undefined == [kind |-> "undefined"]

\* value.name for a parsed value that is not null: a primitive has no such
\* property of its own.
Property(value, name) ==
  With(value, LAMBDA v :
    IF v.kind = "object" /\ name \in DOMAIN v.fields THEN v.fields[name] ELSE Undefined)

\* !value
Falsy(value) ==
  With(value, LAMBDA v :
    \/ v.kind \in {"null", "undefined"}
    \/ v.kind = "number" /\ v.num = 0
    \/ v.kind = "string" /\ v.str = "")

(***************************************************************************)
(* node:crypto.  The keyed hash and the key derivation are deterministic   *)
(* functions of their inputs; a digest has DigestLen bytes (32 in          *)
(* SHA-256).                                                               *)
(***************************************************************************)
DigestLen == 2

RECURSIVE Pow256(_)
Pow256(n) == IF n = 0 THEN 1 ELSE 256 * Pow256(n - 1)

\* The sum of term[lo..hi].
RECURSIVE SumRange(_, _, _)
SumRange(term, lo, hi) ==
  IF lo > hi THEN 0
  ELSE IF lo = hi THEN term[lo]
  ELSE SumRange(term, lo, (lo + hi) \div 2) + SumRange(term, (lo + hi) \div 2 + 1, hi)

Sum(terms) == With(terms \o <<>>, LAMBDA v : SumRange(v, 1, Len(v)))

\* The big-endian bytes of h, n of them.
RECURSIVE ToBytes(_, _)
ToBytes(h, n) ==
  With(h, LAMBDA v : IF n = 0 THEN <<>> ELSE ToBytes(v \div 256, n - 1) \o <<v % 256>>)

\* crypto.createHmac("sha256", key).update(value).digest(): every byte of the
\* key, of a separator and of the message weighs in by its place.
HmacSha256(key, value) ==
  With(BufferFrom(key) \o <<255>> \o BufferFrom(value), LAMBDA input :
    With(Pow256(DigestLen), LAMBDA m :
      ToBytes(Sum([i \in 1..Len(input) |->
                     ((input[i] + 1) * ((2 * i + 1) * (2 * i + 1))) % m]) % m,
              DigestLen)))

\* C1, sensitivity: a comparison that looks at the lengths alone.
LengthsEqual(a, b) == IF Len(a) # Len(b) THEN "throw" ELSE "true"

\* crypto.timingSafeEqual: a RangeError when the lengths differ.
timingSafeEqual(a, b) ==
  IF Len(a) # Len(b) THEN "throw" ELSE IF a = b THEN "true" ELSE "false"

\* crypto.scryptSync(password, salt, keylen): keylen bytes, each a function of
\* the password, the salt and its place in the key.  A key of no bytes is legal.
scryptSync(password, salt, keylen) ==
  With(BufferFrom(password) \o <<255>> \o salt, LAMBDA input :
    [j \in 1..keylen |->
       Sum([i \in 1..Len(input) |-> ((input[i] + j) * ((2 * i + j) * (2 * i + 1))) % 256])
         % 256] \o <<>>)

HexDigits == "0123456789abcdef"

HexUpper == "0123456789ABCDEF"

HexValue(c) ==
  With(c, LAMBDA ch :
    IF Includes(HexDigits, ch) THEN IndexOf(HexDigits, ch) - 1
    ELSE IF Includes(HexUpper, ch) THEN IndexOf(HexUpper, ch) - 1
    ELSE -1)

\* decodeURIComponent: [ok |-> FALSE] is the URIError it throws on a "%" that
\* two hex digits do not follow, or on an escaped byte of 0x80 and above that
\* begins no UTF-8 sequence (the inputs escape no character beyond ASCII).
RECURSIVE decodeURIComponent(_)
decodeURIComponent(s) ==
  With(s, LAMBDA t :
    With(IndexOf(t, "%"), LAMBDA i :
      IF i = 0 THEN [ok |-> TRUE, str |-> t]
      ELSE IF i + 2 > Len(t) THEN [ok |-> FALSE]
      ELSE With(HexValue(Char(t, i + 1)), LAMBDA hi :
             With(HexValue(Char(t, i + 2)), LAMBDA lo :
               IF hi < 0 \/ lo < 0 \/ hi >= 8 THEN [ok |-> FALSE]
               ELSE With(decodeURIComponent(SubSeq(t, i + 3, Len(t))), LAMBDA rest :
                      IF ~rest.ok THEN [ok |-> FALSE]
                      ELSE [ok |-> TRUE,
                            str |-> SubSeq(t, 1, i - 1) \o FromCharCode(hi * 16 + lo)
                                      \o rest.str])))))

(***************************************************************************)
(* The process: its environment, its clock, and what it has done.          *)
(***************************************************************************)
VARIABLES
  env,       \* process.env, as dotenv left it: a record of texts ("" when unset)
  resumeFileOnDisk, \* whether a file is at RESUME_FILE_PATH (fs.existsSync)
  phase,     \* "starting", "listening" (app.listen was reached) or "crashed"
  now,       \* Date.now()
  ticks,     \* how often the clock has advanced
  issued,    \* the tokens the login route has set, with the expiry each carries
             \* and whether a logout has been handled since
  sending,   \* the send-resume requests awaiting their mail provider
  last       \* the request being handled, and how far it got

vars == <<env, resumeFileOnDisk, phase, now, ticks, issued, sending, last>>

\* server.js lines 23-37: String(process.env.X || "").trim()
EMAIL_PROVIDER ==
  ToLowerCase(Trim(IF env.EMAIL_PROVIDER = "" THEN "smtp" ELSE env.EMAIL_PROVIDER))

SMTP_HOST == Trim(env.SMTP_HOST)

SMTP_USER == Trim(env.SMTP_USER)

SMTP_PASS == Trim(env.SMTP_PASS)

BREVO_API_KEY == Trim(env.BREVO_API_KEY)

RESUME_FILE_PATH == Trim(env.RESUME_FILE_PATH)

SESSION_SECRET == Trim(env.SESSION_SECRET)

ADMIN_PASSWORD_HASH == Trim(env.ADMIN_PASSWORD_HASH)

ADMIN_PASSWORD == Trim(env.ADMIN_PASSWORD)

SESSION_COOKIE_NAME == "admin_session"

SESSION_TTL_MS == 8 * 60 * 60 * 1000

\* C20, sensitivity: a check that passes every recipient.
AnyAddress(value) == TRUE

\* /^[^\s@]+@[^\s@]+\.[^\s@]+$/ on the trimmed value.
isValidEmail(value) ==
  With(Trim(value), LAMBDA v :
    With(IndexOf(v, "@"), LAMBDA at :
      With(SubSeq(v, at + 1, Len(v)), LAMBDA domain :
        /\ at > 1
        /\ ~Includes(v, " ")
        /\ ~Includes(domain, "@")
        /\ \E i \in 2..(Len(domain) - 1) : Char(domain, i) = ".")))

\* One part of the Cookie header: whether it is kept, its key and its value.
CookiePart(part) ==
  With(part, LAMBDA p :
    With(IndexOf(p, "="), LAMBDA idx :
      With(Trim(SubSeq(p, 1, idx - 1)), LAMBDA key :
        IF idx = 0 \/ key = "" THEN [kept |-> FALSE]
        ELSE [kept |-> TRUE, key |-> key,
              val |-> decodeURIComponent(Trim(SubSeq(p, idx + 1, Len(p))))])))

\* The cookies of a Cookie header; [ok |-> FALSE] when decodeURIComponent threw.
parseCookies(raw) ==
  With(Split(raw, ";"), LAMBDA parts :
    With([i \in 1..Len(parts) |-> CookiePart(parts[i])] \o <<>>, LAMBDA c :
      With({i \in 1..Len(c) : c[i].kept}, LAMBDA kept :
        IF \E i \in kept : ~c[i].val.ok THEN [ok |-> FALSE]
        ELSE [ok |-> TRUE,
              out |-> [k \in {c[i].key : i \in kept} |->
                         c[CHOOSE i \in kept :
                             c[i].key = k /\ \A j \in kept : c[j].key = k => j <= i].val.str]
                      @@ <<>>])))

SignWith(secret, value) == Base64UrlEncode(HmacSha256(secret, value))

signTokenPart(value) == SignWith(SESSION_SECRET, value)

EncodePayload(payload) == Base64UrlEncode(BufferFrom(JSONstringify(payload)))

\* C15, sensitivity: a token that lives twice as long.
createLongerToken ==
  With(EncodePayload([exp |-> now + 2 * SESSION_TTL_MS, typ |-> "admin"]), LAMBDA payloadPart :
    payloadPart \o "." \o signTokenPart(payloadPart))

createSessionToken ==
  With(EncodePayload([exp |-> now + SESSION_TTL_MS, typ |-> "admin"]), LAMBDA payloadPart :
    payloadPart \o "." \o signTokenPart(payloadPart))

\* C3, sensitivity: a payload that never expires.
NeverExpired(exp) == FALSE

\* C8, sensitivity: a payload that has expired when the clock reads its expiry.
ExpiredAtExpiry(exp) == now >= exp

\* Date.now() > payload.exp
Expired(exp) == now > exp

\* The try block of verifySessionToken: "throw" when JSON.parse throws.
SessionPayloadCheck(payloadPart) ==
  With(JSONparse(BufferToString(Base64Decode(payloadPart))), LAMBDA payload :
    IF payload.kind = "throw" THEN "throw"
    ELSE IF Falsy(payload) \/ Property(payload, "typ") # [kind |-> "string", str |-> "admin"]
      THEN "false"
    ELSE With(Property(payload, "exp"), LAMBDA exp :
           IF exp.kind # "number" THEN "false"
           ELSE IF Expired(exp.num) THEN "false"
           ELSE "true"))

\* C7, sensitivity: no catch around the body.
Uncaught(result) == result

\* try { ... } catch { return false; }
Caught(result) == IF result = "throw" THEN "false" ELSE result

\* What verifySessionToken did with a token: its answer ("true", "false", or
\* "throw" for an exception that leaves it), and whether it decoded the
\* payload segment on the way.
Verified(verdict, decoded) == [verdict |-> verdict, decoded |-> decoded]

\* C12, sensitivity: the payload is decoded whatever the comparison answered.
DecodeThenCompare(same, payloadPart) ==
  With(Caught(SessionPayloadCheck(payloadPart)), LAMBDA checked :
    Verified(IF same # "true" THEN same ELSE checked, TRUE))

\* return false unless timingSafeEqual accepted; then the try block.
AfterComparison(same, payloadPart) ==
  IF same # "true" THEN Verified(same, FALSE)
  ELSE Verified(Caught(SessionPayloadCheck(payloadPart)), TRUE)

\* The run of verifySessionToken on a token, a text value or Undefined.
VerifySteps(token) ==
  With(token, LAMBDA t :
    IF Falsy(t) \/ ~Includes(t.str, ".") THEN Verified("false", FALSE)
    ELSE With(Split(t.str, "."), LAMBDA parts :
      IF parts[1] = "" \/ parts[2] = "" THEN Verified("false", FALSE)
      ELSE With(BufferFrom(parts[2]), LAMBDA a :
        With(BufferFrom(signTokenPart(parts[1])), LAMBDA b :
          IF Len(a) # Len(b) THEN Verified("false", FALSE)
          ELSE AfterComparison(timingSafeEqual(a, b), parts[1])))))

verifySessionToken(token) == VerifySteps(token).verdict

\* What verifyPassword did with a candidate: its answer ("true", "false", or
\* "throw" for timingSafeEqual's RangeError), and whether it ran scryptSync or
\* timingSafeEqual on the way.
Checked(verdict, compared) == [verdict |-> verdict, compared |-> compared]

\* The run of verifyPassword on a password.
PasswordSteps(password) ==
  With(password, LAMBDA candidate :
    IF candidate = "" THEN Checked("false", FALSE)
    ELSE IF StartsWith(ADMIN_PASSWORD_HASH, "scrypt$")
      THEN With(Split(ADMIN_PASSWORD_HASH, "$"), LAMBDA parts :
             IF Len(parts) # 3 THEN Checked("false", FALSE)
             ELSE With(Base64Decode(parts[3]), LAMBDA expected :
                    Checked(timingSafeEqual(
                              expected,
                              scryptSync(candidate, Base64Decode(parts[2]), Len(expected))),
                            TRUE)))
    ELSE IF ADMIN_PASSWORD # ""
      THEN With(BufferFrom(ADMIN_PASSWORD), LAMBDA expected :
             With(BufferFrom(candidate), LAMBDA received :
               IF Len(expected) # Len(received) THEN Checked("false", FALSE)
               ELSE Checked(timingSafeEqual(expected, received), TRUE)))
    ELSE Checked("false", FALSE))

verifyPassword(password) == PasswordSteps(password).verdict

\* What becomes of a request in a middleware or a handler: it answers, it
\* calls next, or it throws (and the default error handler answers 500).
Respond(status, body) == [outcome |-> "respond", status |-> status, body |-> body]

CallNext == [outcome |-> "next", status |-> 0, body |-> ""]

Throw(error) == [outcome |-> "throw", status |-> 500, body |-> error]

\* res.status(401).json({ error: "Unauthorized" })
Unauthorized == Respond(401, "Unauthorized")

\* res.status(401).json({ error: "Invalid credentials" })
InvalidCredentials == Respond(401, "Invalid credentials")

\* C13, sensitivity: once a logout was handled, the sessions before it are
\* refused.
LogoutRevokes(verdict) ==
  CASE verdict = "true" /\ (\A i \in issued : ~i.loggedOut) -> CallNext
    [] verdict \in {"true", "false"} -> Unauthorized
    [] OTHER -> Throw("SyntaxError")

\* C14, sensitivity: a gate that refuses while another request awaits its
\* mail provider.
BusyRejects(verdict) ==
  CASE verdict = "true" /\ sending = 0 -> CallNext
    [] verdict \in {"true", "false"} -> Unauthorized
    [] OTHER -> Throw("SyntaxError")

\* C2, sensitivity: a gate that lets every request through.
AlwaysNext(verdict) == CallNext

\* if (!verifySessionToken(token)) return res.status(401)...; next();
AfterVerification(verdict) ==
  CASE verdict = "true" -> CallNext
    [] verdict = "false" -> Unauthorized
    [] OTHER -> Throw("SyntaxError")

\* No cookie was read, no token verified.
NotRead == [kind |-> "unread"]

\* The gate's decision with the token it read and what verifySessionToken did.
Gate(decision, token, steps) ==
  [outcome |-> decision.outcome, status |-> decision.status, body |-> decision.body,
   token |-> token, verdict |-> steps.verdict, decoded |-> steps.decoded]

\* The gate, for a request with this Cookie header.
requireAdminAuth(cookieHeader) ==
  IF SESSION_SECRET = ""
  THEN Gate(Respond(500, "Server not configured: missing SESSION_SECRET"), NotRead,
            Verified("none", FALSE))
  ELSE With(parseCookies(cookieHeader), LAMBDA cookies :
    IF ~cookies.ok THEN Gate(Throw("URIError"), NotRead, Verified("none", FALSE))
    ELSE With(IF SESSION_COOKIE_NAME \in DOMAIN cookies.out
              THEN [kind |-> "string", str |-> cookies.out[SESSION_COOKIE_NAME]]
              ELSE Undefined, LAMBDA token :
      With(VerifySteps(token), LAMBDA steps :
        Gate(AfterVerification(steps.verdict), token, steps))))

\* "ok", or the message of the Error it throws.
\* C19, sensitivity: a start-up check that does not look at SESSION_SECRET.
validateWithoutSecret ==
  IF ADMIN_PASSWORD_HASH = "" /\ ADMIN_PASSWORD = "" THEN "Missing admin password config."
  ELSE IF EMAIL_PROVIDER = "smtp" /\ (SMTP_HOST = "" \/ SMTP_USER = "" \/ SMTP_PASS = "")
    THEN "Missing SMTP configuration."
  ELSE IF EMAIL_PROVIDER = "brevo" /\ BREVO_API_KEY = "" THEN "Missing BREVO_API_KEY."
  ELSE IF RESUME_FILE_PATH = "" THEN "Missing RESUME_FILE_PATH."
  ELSE IF ~resumeFileOnDisk THEN "Resume file not found"
  ELSE "ok"

validateServerConfig ==
  IF SESSION_SECRET = "" THEN "Missing SESSION_SECRET."
  ELSE IF ADMIN_PASSWORD_HASH = "" /\ ADMIN_PASSWORD = "" THEN "Missing admin password config."
  ELSE IF EMAIL_PROVIDER = "smtp" /\ (SMTP_HOST = "" \/ SMTP_USER = "" \/ SMTP_PASS = "")
    THEN "Missing SMTP configuration."
  ELSE IF EMAIL_PROVIDER = "brevo" /\ BREVO_API_KEY = "" THEN "Missing BREVO_API_KEY."
  ELSE IF RESUME_FILE_PATH = "" THEN "Missing RESUME_FILE_PATH."
  ELSE IF ~resumeFileOnDisk THEN "Resume file not found"
  ELSE "ok"

(***************************************************************************)
(* The inputs: the environments the process is started in, the passwords   *)
(* a login sends, and the Cookie headers a request carries.                *)
(***************************************************************************)
MaxTicks == 3

MaxLogins == 1

MaxSending == 1

ScryptKeyLen == 2

GoodSecret == "s3cr3t"

AttackerSecret == "attacker"

Salt64 == "c2FsdA"

\* The descriptor an operator stores for a password: scrypt$<salt>$<key>.
HashOf(password, salt64) ==
  "scrypt$" \o salt64 \o "$"
    \o Base64UrlEncode(scryptSync(password, Base64Decode(salt64), ScryptKeyLen))

GoodEnv ==
  [SESSION_SECRET |-> GoodSecret, ADMIN_PASSWORD_HASH |-> "", ADMIN_PASSWORD |-> "pw",
   EMAIL_PROVIDER |-> "", SMTP_HOST |-> "mx", SMTP_USER |-> "me", SMTP_PASS |-> "x",
   BREVO_API_KEY |-> "", RESUME_FILE_PATH |-> "cv.pdf", AUTOSEND_API_KEY |-> "k1"]

\* <<ADMIN_PASSWORD_HASH, ADMIN_PASSWORD>>
PasswordSettings ==
  { <<"", "pw">>, <<"", " pw ">>, <<"", "">>, <<"", " ">>,
    <<HashOf("pw", Salt64), "">>, <<HashOf("pw", Salt64), "px">>,
    <<HashOf("pw", ""), "">>,
    <<"scrypt$" \o Salt64 \o "$", "">>, <<"scrypt$$", "pw">>,
    <<"scrypt$" \o Salt64, "pw">>, <<"sha256$abc", "">>, <<"sha256$abc", "pw">> }

\* Every environment the logins are explored under.
Environments ==
  { [GoodEnv EXCEPT !.ADMIN_PASSWORD_HASH = s[1], !.ADMIN_PASSWORD = s[2]] :
      s \in PasswordSettings }
  \cup { [GoodEnv EXCEPT !.SESSION_SECRET = k] : k \in {"", " ", " " \o GoodSecret} }
  \cup { [GoodEnv EXCEPT !.EMAIL_PROVIDER = " Brevo"],
         [GoodEnv EXCEPT !.EMAIL_PROVIDER = "BREVO", !.BREVO_API_KEY = "k"],
         [GoodEnv EXCEPT !.SMTP_PASS = ""],
         [GoodEnv EXCEPT !.RESUME_FILE_PATH = " "] }

\* The environments the requests to the gate are explored under.
GateEnvironments ==
  { GoodEnv,
    [GoodEnv EXCEPT !.SESSION_SECRET = " " \o AttackerSecret \o " ",
                    !.ADMIN_PASSWORD_HASH = HashOf("pw", Salt64), !.ADMIN_PASSWORD = "",
                    !.AUTOSEND_API_KEY = ""],
    [GoodEnv EXCEPT !.SESSION_SECRET = ""] }

Passwords == {"", " ", "pw", "px", "p", "pwx", " pw "}

\* Texts a forger can put where the payload goes.
ForgedPayloadTexts ==
  { "not json", "null", "7", "\"admin\"", "{}",
    "{\"typ\":\"admin\"}",
    "{\"exp\":\"99999999\",\"typ\":\"admin\"}",
    "{\"exp\":99999999,\"typ\":\"user\"}" }

\* A payload that expires later than any token the process issues.
LaterExpiry == EncodePayload([exp |-> 99999999, typ |-> "admin"])

\* payloadPart signed under a key.
SignedUnder(key, payloadPart) == payloadPart \o "." \o SignWith(key, payloadPart)

\* The keys a forger signs under.
ForgerKeys == {GoodSecret, AttackerSecret}

\* A forged payload text as a token signed under a key.
Forged(key, text) == SignedUnder(key, Base64UrlEncode(BufferFrom(text)))

\* Tokens made without a login: a payload segment signed under some key.
CraftedTokens ==
  { Forged(key, t) : key \in ForgerKeys, t \in ForgedPayloadTexts }
  \cup { SignedUnder(key, LaterExpiry) : key \in ForgerKeys }
  \cup { "bm90IGpzb24.AAA", "", ".", "abc", "abc.", ".abc", "a..b" }

\* s with its i-th character replaced by c.
ReplaceChar(s, i, c) == SubSeq(s, 1, i - 1) \o c \o SubSeq(s, i + 1, Len(s))

\* Another character of the base64url alphabet.
OtherChar(c) == Char(Base64UrlAlphabet, (IndexOf(Base64UrlAlphabet, c) % 64) + 1)

\* Token t with one character of its signature segment changed.
SignatureFlips(token) ==
  With(token, LAMBDA t :
    With(IndexOf(t, "."), LAMBDA dot :
      { ReplaceChar(t, i, OtherChar(Char(t, i))) : i \in (dot + 1)..Len(t) }
      \cup { ReplaceChar(t, Len(t), "."), ReplaceChar(t, dot + 1, ".") }))

\* What else a client holding token t can make of it.
Tampered(token) ==
  With(token, LAMBDA t :
    With(IndexOf(t, "."), LAMBDA dot :
      With(SubSeq(t, dot + 1, Len(t)), LAMBDA sig :
        { LaterExpiry \o "." \o sig,
          SubSeq(t, 1, dot),
          SubSeq(t, 1, dot - 1) \o sig,
          t \o "A",
          SubSeq(t, 1, Len(t) - 1),
          t \o ".x",
          t \o "." })))

IssuedTokens == {i.token : i \in issued}

TokenInputs ==
  CraftedTokens \cup IssuedTokens
    \cup UNION {SignatureFlips(t) \cup Tampered(t) : t \in IssuedTokens}

CookieHeaders ==
  { SESSION_COOKIE_NAME \o "=" \o t : t \in TokenInputs }
  \cup { "theme=dark; " \o SESSION_COOKIE_NAME \o "=" \o t : t \in IssuedTokens }
  \cup { "theme=%; " \o SESSION_COOKIE_NAME \o "=" \o t : t \in IssuedTokens }
  \cup { SESSION_COOKIE_NAME \o "=" \o ReplaceChar(t, IndexOf(t, "."), "%2E") : t \in IssuedTokens }
  \cup { "", "theme=dark", SESSION_COOKIE_NAME \o "=%", SESSION_COOKIE_NAME \o "=%zz",
         SESSION_COOKIE_NAME \o "=%e9" }

\* The Cookie headers of the requests to send a resume.
SendCookieHeaders ==
  { SESSION_COOKIE_NAME \o "=" \o t : t \in IssuedTokens \cup {t \o ".x" : t \in IssuedTokens} }
  \cup { "", SESSION_COOKIE_NAME \o "=%", SESSION_COOKIE_NAME \o "=abc.AAA" }

Recipients == {" A@b.co", "nobody", "a@b", ""}

\* The x-api-key headers of the requests to send a resume: none, the key of
\* the environment, and a key one character off.  No line of the server reads
\* the header.
ApiKeyHeaders == {"", "k1", "k2"}

(***************************************************************************)
(* The steps of the process.                                               *)
(***************************************************************************)
NoRequest ==
  [op |-> "none", input |-> "", passwordOk |-> "none", compared |-> FALSE,
   apiKey |-> "", toEmail |-> "", token |-> NotRead, verdict |-> "none", decoded |-> FALSE,
   gate |-> "none", handler |-> FALSE, status |-> 0, body |-> "", setCookie |-> ""]

Starting(environments) ==
  /\ env \in environments
  /\ resumeFileOnDisk \in BOOLEAN
  /\ phase = "starting"
  /\ now = 0
  /\ ticks = 0
  /\ issued = {}
  /\ sending = 0
  /\ last = NoRequest

Init == Starting(GateEnvironments)

\* No request is being handled: the event loop is free to take the next.
Idle == phase = "listening" /\ last.op = "none"

\* Module evaluation, lines 11-286: validateServerConfig throws, or the rest
\* runs and app.listen is reached.
Start ==
  /\ phase = "starting"
  /\ phase' = IF validateServerConfig = "ok" THEN "listening" ELSE "crashed"
  /\ last' = NoRequest
  /\ UNCHANGED <<env, resumeFileOnDisk, now, ticks, issued, sending>>

\* Time passes.
Tick ==
  /\ Idle
  /\ ticks < MaxTicks
  /\ \E dt \in {1, SESSION_TTL_MS - 1} : now' = now + dt
  /\ ticks' = ticks + 1
  /\ last' = NoRequest
  /\ UNCHANGED <<env, resumeFileOnDisk, phase, issued, sending>>

\* The expiry a token's payload carries.
ExpiryOf(token) ==
  Property(JSONparse(BufferToString(Base64Decode(Split(token, ".")[1]))), "exp").num

\* The answer of the login route to a password verifyPassword gave this
\* verdict on.
LoginAnswer(verdict) ==
  CASE verdict = "true" -> Respond(200, "ok")
    [] verdict = "false" -> InvalidCredentials
    [] OTHER -> Throw("RangeError")

\* C18, sensitivity: a login route that sets the cookie whatever verifyPassword
\* answered.
CookieForAll(verdict) == createSessionToken

\* The cookie the login route sets: if (!verifyPassword(password)) return ...;
\* const token = createSessionToken(); res.cookie(SESSION_COOKIE_NAME, token, ...)
LoginCookie(verdict) == IF verdict = "true" THEN createSessionToken ELSE ""

\* POST /api/admin/login
Login ==
  /\ Idle
  /\ \E password \in Passwords :
       \E steps \in {PasswordSteps(password)} :
         \E token \in {LoginCookie(steps.verdict)} :
           /\ token # "" => Cardinality(issued) < MaxLogins
           /\ issued' = IF token # ""
                        THEN issued \cup {[token |-> token, exp |-> ExpiryOf(token),
                                        loggedOut |-> FALSE]}
                        ELSE issued
           /\ last' = [NoRequest EXCEPT
                         !.op = "login", !.input = password,
                         !.passwordOk = steps.verdict, !.compared = steps.compared,
                         !.handler = TRUE,
                         !.status = LoginAnswer(steps.verdict).status,
                         !.body = LoginAnswer(steps.verdict).body,
                         !.setCookie = token]
  /\ UNCHANGED <<env, resumeFileOnDisk, phase, now, ticks, sending>>

\* POST /api/admin/logout.  The route writes nothing the server keeps; when
\* noted, the sessions issued before it are marked, for the claims about what
\* a logout leaves behind.
LogoutHandled(noted) ==
  /\ Idle
  /\ last' = [NoRequest EXCEPT !.op = "logout", !.handler = TRUE, !.status = 200,
                               !.body = "ok", !.setCookie = "cleared"]
  /\ issued' = IF noted THEN {[i EXCEPT !.loggedOut = TRUE] : i \in issued} ELSE issued
  /\ UNCHANGED <<env, resumeFileOnDisk, phase, now, ticks, sending>>

Logout == LogoutHandled(FALSE)

LogoutNoted == LogoutHandled(TRUE)

\* A request to a route behind the gate, as the gate left it.
Gated(op, cookieHeader, gate) ==
  [NoRequest EXCEPT
     !.op = op, !.input = cookieHeader, !.token = gate.token, !.verdict = gate.verdict,
     !.decoded = gate.decoded, !.gate = gate.outcome, !.status = gate.status,
     !.body = gate.body]

\* GET /api/admin/me
AdminMe ==
  /\ Idle
  /\ \E cookieHeader \in CookieHeaders :
       \E gate \in {requireAdminAuth(cookieHeader)} :
         last' = IF gate.outcome = "next"
                 THEN [Gated("me", cookieHeader, gate) EXCEPT
                         !.handler = TRUE, !.status = 200, !.body = "authenticated"]
                 ELSE Gated("me", cookieHeader, gate)
  /\ UNCHANGED <<env, resumeFileOnDisk, phase, now, ticks, issued, sending>>

\* POST /api/send-resume, up to the await of the mail provider, for a request
\* whose x-api-key header is one of apiKeys.
SendRequest(apiKeys) ==
  /\ Idle
  /\ \E cookieHeader \in SendCookieHeaders :
       \E gate \in {requireAdminAuth(cookieHeader)} :
         \E toEmail \in IF gate.outcome = "next"
                        THEN {ToLowerCase(Trim(r)) : r \in Recipients}
                        ELSE {""} :
           \E dispatch \in {gate.outcome = "next" /\ isValidEmail(toEmail)} :
             \E request \in {[Gated("send", cookieHeader, gate) EXCEPT !.apiKey = apiKey] :
                                apiKey \in apiKeys} :
               /\ dispatch => sending < MaxSending
               /\ sending' = IF dispatch THEN sending + 1 ELSE sending
               /\ last' = IF gate.outcome # "next" THEN request
                          ELSE IF dispatch
                            THEN [request EXCEPT !.handler = TRUE, !.toEmail = toEmail,
                                                 !.body = "awaiting"]
                          ELSE [request EXCEPT
                                  !.handler = TRUE, !.toEmail = toEmail, !.status = 400,
                                  !.body = "Invalid recipient email"]
  /\ UNCHANGED <<env, resumeFileOnDisk, phase, now, ticks, issued>>

\* POST /api/send-resume without an x-api-key header.
SendResume == SendRequest({""})

\* POST /api/send-resume with any of the x-api-key headers.
SendResumeWithKey == SendRequest(ApiKeyHeaders)

\* The mail provider answers a send-resume request that awaits it.
MailSettles ==
  /\ Idle
  /\ sending > 0
  /\ sending' = sending - 1
  /\ \E accepted \in BOOLEAN :
       last' = [NoRequest EXCEPT !.op = "mail", !.handler = TRUE,
                                 !.status = IF accepted THEN 200 ELSE 500,
                                 !.body = IF accepted THEN "ok"
                                          ELSE "Failed to send resume email"]
  /\ UNCHANGED <<env, resumeFileOnDisk, phase, now, ticks, issued>>

\* The response of the request being handled is out; its handler has returned.
ResponseSent ==
  /\ phase = "listening"
  /\ last.op # "none"
  /\ last' = NoRequest
  /\ UNCHANGED <<env, resumeFileOnDisk, phase, now, ticks, issued, sending>>

Next ==
  \/ Start
  \/ Tick
  \/ Login
  \/ Logout
  \/ AdminMe
  \/ SendResume
  \/ MailSettles
  \/ ResponseSent

Spec == Init /\ [][Next]_vars

\* The logins alone, under every environment.
InitLogin == Starting(Environments)

NextLogin ==
  \/ Start
  \/ Login
  \/ ResponseSent

SpecLogin == InitLogin /\ [][NextLogin]_vars

\* Logins, logouts and requests to /api/admin/me as time passes, with the
\* sessions a logout came after marked.
NextLogout ==
  \/ Start
  \/ Tick
  \/ Login
  \/ LogoutNoted
  \/ AdminMe
  \/ ResponseSent

SpecLogout == Init /\ [][NextLogout]_vars

\* The requests to send a resume under every x-api-key header, sessions
\* coming from the logins.
NextSend ==
  \/ Start
  \/ Login
  \/ SendResumeWithKey
  \/ MailSettles
  \/ ResponseSent

SpecSend == Init /\ [][NextSend]_vars

(***************************************************************************)
(* The claims.  A request's record in last is read once its gate or its    *)
(* handler has acted on it.                                                *)
(***************************************************************************)
\* The token the gate read is this text.
TokenIs(text) == last.token = [kind |-> "string", str |-> text]

\* The gate read a token that is a text of this set.
TokenIn(texts) == last.token.kind = "string" /\ last.token.str \in texts

\* The request went to a route behind the gate.
AtGate == last.op \in {"me", "send"}

\* The later expiry signed under each of the forger's keys.
LaterSigned == [key \in ForgerKeys |-> SignedUnder(key, LaterExpiry)] @@ <<>>

\* C1: verifySessionToken returns true only for a token whose signature
\* segment is the keyed hash, under the current SESSION_SECRET, of its payload
\* segment; an issued token with one character of its signature changed, and
\* a payload signed under another key, are rejected.
C1_SignatureDecides ==
  /\ last.verdict = "true" =>
       /\ last.token.kind = "string"
       /\ With(Split(last.token.str, "."), LAMBDA parts :
            /\ Len(parts) >= 2
            /\ parts[2] = Base64UrlEncode(HmacSha256(SESSION_SECRET, parts[1])))
  /\ TokenIn(UNION {SignatureFlips(t) : t \in IssuedTokens}) => last.verdict = "false"
  /\ TokenIn({LaterSigned[key] : key \in ForgerKeys \ {SESSION_SECRET}})
       => last.verdict = "false"

\* C1, witness: the gate has rejected an issued token with one character of
\* its signature changed.
C1_FlippedSignatureRejected ==
  /\ TokenIn(UNION {SignatureFlips(t) : t \in IssuedTokens})
  /\ last.verdict = "false"
  /\ \E i \in issued : now <= i.exp

\* C2: the handler of a gated route runs only when verifySessionToken has
\* accepted the token of the request's own admin_session cookie; when it has
\* rejected the token the gate answers 401 Unauthorized, the handler does not
\* run and no mail is dispatched; no request is both answered by the gate and
\* handled.
C2_GateDecides ==
  AtGate =>
    /\ last.handler =>
         /\ last.verdict = "true"
         /\ With(parseCookies(last.input), LAMBDA cookies :
              /\ cookies.ok
              /\ SESSION_COOKIE_NAME \in DOMAIN cookies.out
              /\ TokenIs(cookies.out[SESSION_COOKIE_NAME]))
    /\ last.verdict = "false" =>
         /\ ~last.handler
         /\ last.gate = "respond" /\ last.status = 401 /\ last.body = "Unauthorized"
    /\ last.body = "awaiting" => last.handler
    /\ ~(last.handler /\ last.gate = "respond")

\* C2, witness: a request to send a resume was rejected at the gate while no
\* mail is on its way.
C2_SendStoppedAtGate ==
  /\ last.op = "send" /\ last.verdict = "false"
  /\ ~last.handler /\ last.status = 401
  /\ sending = 0

\* C3: a token issued with expiry E is accepted when the clock reads E - 1 and
\* rejected when it reads E + 1 or anything later.
C3_ExpiryRejects ==
  \A i \in issued :
    TokenIs(i.token) =>
      /\ now = i.exp - 1 => last.verdict = "true"
      /\ now > i.exp => last.verdict = "false"

\* C3, witness: the gate has rejected an issued token one millisecond after
\* its expiry.
C3_RejectedJustAfterExpiry ==
  \E i \in issued : TokenIs(i.token) /\ now = i.exp + 1 /\ last.verdict = "false"

\* A token is one non-empty payload segment and one non-empty signature
\* segment with one separator between them.
WellFormed(token) ==
  /\ token.kind = "string"
  /\ With(Split(token.str, "."), LAMBDA parts :
       Len(parts) = 2 /\ parts[1] # "" /\ parts[2] # "")

\* C4: verifySessionToken rejects every token that is not exactly one payload
\* segment and one signature segment joined by a single separator.
C4_TwoSegmentsOnly ==
  (last.verdict # "none" /\ ~WellFormed(last.token)) => last.verdict = "false"

\* C5: every authentication failure is answered alike: a request stopped at
\* the gate gets the status and the body a login with a wrong password gets.
C5_UniformRejection ==
  (AtGate /\ last.gate # "next") =>
    /\ last.status = LoginAnswer("false").status
    /\ last.body = LoginAnswer("false").body

\* C6: whatever Cookie header a request carries, the gate calls next or
\* answers 401 Unauthorized; no exception leaves it.
C6_NoExceptionLeavesGate ==
  AtGate =>
    \/ last.gate = "next"
    \/ last.gate = "respond" /\ last.status = 401 /\ last.body = "Unauthorized"

\* Payload texts that are no JSON object.
GarbageTexts == {"not json", "null", "7", "\"admin\""}

\* Tokens whose payload segment encodes no JSON object, signed under either
\* key or not signed at all.
GarbageTokens ==
  {Forged(key, t) : key \in ForgerKeys, t \in GarbageTexts} \cup {"bm90IGpzb24.AAA"}

\* C7: verifySessionToken never throws, and returns false for an absent
\* token, the empty text, a text without separator, and a token whose payload
\* segment does not encode a JSON object, correctly signed or not.
C7_MalformedRejected ==
  /\ last.verdict # "throw"
  /\ last.verdict # "none" =>
       /\ last.token = Undefined => last.verdict = "false"
       /\ (last.token.kind = "string" /\ ~Includes(last.token.str, "."))
            => last.verdict = "false"
       /\ TokenIn(GarbageTokens) => last.verdict = "false"

\* C7, witness: the gate has rejected a token whose payload is no JSON at all
\* and whose signature is the right one.
C7_SignedGarbageRejected ==
  /\ SESSION_SECRET \in ForgerKeys
  /\ TokenIs(Forged(SESSION_SECRET, "not json"))
  /\ last.verdict = "false"

\* C8: a token the login route has issued is accepted at every clock value
\* from its issue up to its expiry.
C8_IssuedAccepted ==
  \A i \in issued : (TokenIs(i.token) /\ now <= i.exp) => last.verdict = "true"

\* C8, witness: the gate has accepted an issued token at the instant of its
\* expiry.
C8_AcceptedAtExpiry ==
  \E i \in issued : TokenIs(i.token) /\ now = i.exp /\ last.verdict = "true"

\* C9: under every password configuration the process starts with,
\* verifyPassword accepts at most one candidate.
C9_AtMostOnePassword ==
  (last.op = "login" /\ last.status = 200) =>
    \A other \in Passwords \ {last.input} : verifyPassword(other) # "true"

\* C10: with a non-empty text S configured as the raw admin password, a login
\* succeeds with S and with nothing else.
C10_RawPasswordExact ==
  (/\ last.op = "login"
   /\ env.ADMIN_PASSWORD # ""
   /\ ~StartsWith(ADMIN_PASSWORD_HASH, "scrypt$"))
    => (last.status = 200 <=> last.input = env.ADMIN_PASSWORD)

\* C11: the process listens only once validateServerConfig has succeeded, and
\* never under a configuration whose login accepts no candidate or accepts
\* every candidate.
C11_ServesOnlyWhenLoginCanDecide ==
  phase = "listening" =>
    /\ validateServerConfig = "ok"
    /\ \E p \in Passwords : verifyPassword(p) = "true"
    /\ \E p \in Passwords : p # "" /\ verifyPassword(p) # "true"

\* C12: verifySessionToken decodes the payload segment only once the
\* signature comparison has accepted: a token whose signature segment is not
\* the keyed hash of its payload segment is rejected with the payload never
\* decoded.
C12_SignatureBeforePayload ==
  (last.verdict # "none" /\ last.token.kind = "string" /\ Includes(last.token.str, "."))
    => With(Split(last.token.str, "."), LAMBDA parts :
         parts[2] # SignWith(SESSION_SECRET, parts[1])
           => (last.verdict = "false" /\ ~last.decoded))

\* C12, witness: the gate has rejected, undecoded, a later expiry that carries
\* the signature of an issued token.
C12_ForgedPayloadNotDecoded ==
  /\ \E i \in issued :
       TokenIs(LaterExpiry \o SubSeq(i.token, IndexOf(i.token, "."), Len(i.token)))
  /\ last.verdict = "false"
  /\ ~last.decoded

\* C13: a logout revokes nothing: a token issued before a logout is accepted
\* by the gate, and the handler behind it runs, on every later request that
\* presents it while the clock has not passed its expiry.
C13_LogoutDoesNotRevoke ==
  \A i \in issued :
    (AtGate /\ i.loggedOut /\ TokenIs(i.token) /\ now <= i.exp)
      => (last.verdict = "true" /\ last.gate = "next" /\ last.handler)

\* C13, witness: after a logout and some time, the handler has run for a
\* request that presents the token issued before the logout.
C13_AcceptedAfterLogout ==
  \E i \in issued :
    /\ i.loggedOut /\ TokenIs(i.token)
    /\ now > i.exp - SESSION_TTL_MS
    /\ last.op = "me" /\ last.handler /\ last.status = 200

\* A token that, read at this clock under this signing secret, has a payload
\* segment signed under the secret that holds an admin payload not yet expired.
AcceptableAt(token, clock, secret) ==
  /\ token.kind = "string"
  /\ With(Split(token.str, "."), LAMBDA parts :
       /\ Len(parts) >= 2
       /\ parts[1] # ""
       /\ parts[2] = SignWith(secret, parts[1])
       /\ With(JSONparse(BufferToString(Base64Decode(parts[1]))), LAMBDA payload :
            /\ payload.kind = "object"
            /\ Property(payload, "typ") = [kind |-> "string", str |-> "admin"]
            /\ Property(payload, "exp").kind = "number"
            /\ Property(payload, "exp").num >= clock))

\* C14: requests do not interfere: no step changes the configuration, no
\* request changes the clock, and under every interleaving the gate lets a
\* request through exactly when the token it presents is acceptable at the
\* clock of its verification under the configured secret, whatever other
\* requests have done or are doing.
C14_NoInterference ==
  [][/\ env' = env
     /\ last'.op # "none" => now' = now
     /\ (last'.op \in {"me", "send"} /\ last'.verdict # "none")
          => (last'.gate = "next" <=> AcceptableAt(last'.token, now, Trim(env.SESSION_SECRET)))
    ]_vars

\* C14, witness: the gate has accepted a request while another request awaits
\* its mail provider and time has passed since the login.
C14_AcceptedWhileSending ==
  /\ last.op = "me" /\ last.gate = "next"
  /\ sending > 0
  /\ \E i \in issued : now > i.exp - SESSION_TTL_MS

\* C15: the lifetime of a session is fixed: a successful login issues a token
\* that expires 8 hours (28800000 ms) after the login instant; a request to a
\* gated route sets no cookie and issues no token; no step changes the expiry
\* of a token issued before; and no token is let through after its expiry.
C15_FixedLifetime ==
  [][/\ (last'.op = "login" /\ last'.status = 200) =>
          /\ SESSION_TTL_MS = 28800000
          /\ ExpiryOf(last'.setCookie) = now + 28800000
          /\ IssuedTokens' = IssuedTokens \cup {last'.setCookie}
     /\ last'.op \in {"me", "send", "mail"} =>
          (last'.setCookie = "" /\ IssuedTokens' = IssuedTokens)
     /\ \A i \in issued : \E j \in issued' : j.token = i.token /\ j.exp = i.exp
     /\ \A i \in issued :
          (last'.token = [kind |-> "string", str |-> i.token] /\ last'.gate = "next")
            => now <= i.exp
    ]_vars

\* C15, witness: a token is accepted at its expiry, 8 hours after the login,
\* and the accepted request has set no cookie.
C15_UsedUntilExpiry ==
  \E i \in issued :
    /\ TokenIs(i.token) /\ last.gate = "next" /\ last.setCookie = ""
    /\ now = i.exp
    /\ ticks = 2

\* C16: under every configuration verifyPassword returns false for an empty
\* or blank candidate at once, with no key derivation and no comparison run.
C16_BlankFailsAtOnce ==
  (last.op = "login" /\ Trim(last.input) = "")
    => (last.passwordOk = "false" /\ ~last.compared /\ last.status = 401)

\* C17: the send endpoint is behind an API-key gate: with no key configured
\* every request is rejected, and with a key configured a request is let
\* through exactly when its x-api-key header is non-empty and equal to it.
C17_ApiKeyGateDecides ==
  (last.op = "send" /\ last.gate # "none")
    => (last.gate = "next"
          <=> /\ env.AUTOSEND_API_KEY # ""
              /\ last.apiKey # ""
              /\ last.apiKey = env.AUTOSEND_API_KEY)

\* C18: a session token is issued and a session cookie set only by a login
\* whose password verifyPassword accepted; a login with a rejected password is
\* answered 401 with no token issued and no cookie set, and no other route
\* issues a token.
C18_OnlyAcceptedLoginIssues ==
  [][ /\ (last'.setCookie \notin {"", "cleared"} \/ IssuedTokens' # IssuedTokens)
          => /\ last'.op = "login"
             /\ last'.passwordOk = "true"
             /\ last'.status = 200
             /\ IssuedTokens' = IssuedTokens \cup {last'.setCookie}
      /\ (last'.op = "login" /\ last'.passwordOk # "true")
          => /\ last'.status = 401
             /\ last'.body = "Invalid credentials"
             /\ last'.setCookie = ""
             /\ IssuedTokens' = IssuedTokens ]_vars

\* A login is rejected after another was accepted.
C18_RejectedAfterAccepted ==
  /\ last.op = "login"
  /\ last.passwordOk = "false"
  /\ last.setCookie = ""
  /\ issued # {}

\* C19: whenever the server handles requests SESSION_SECRET is non-empty, so
\* requireAdminAuth never answers "Server not configured" and no token is
\* signed or verified under an empty key.
C19_SecretWhileServing ==
  /\ phase = "listening" => SESSION_SECRET # ""
  /\ last.op # "none" => SESSION_SECRET # ""
  /\ ~(last.status = 500 /\ last.body = "Server not configured: missing SESSION_SECRET")

\* The gate verified a token, and accepted it, while the server was serving.
C19_VerifiedWhileServing ==
  /\ phase = "listening"
  /\ last.op = "me"
  /\ last.verdict = "true"
  /\ last.handler

\* C20: a request to POST /api/send-resume that passed the gate dispatches at
\* most one email and gets exactly one response: an invalid recipient gets
\* the 400 at once with nothing dispatched, a valid one is dispatched once and
\* answered when the provider settles, 200 ok on success and 500 on failure;
\* no other step dispatches or settles an email.
C20_OneDispatchOneResponse ==
  [][ /\ (last'.op = "send" /\ last'.handler)
          => IF last'.toEmail = "a@b.co"
             THEN /\ sending' = sending + 1
                  /\ last'.status = 0
                  /\ last'.body = "awaiting"
             ELSE /\ sending' = sending
                  /\ last'.status = 400
                  /\ last'.body = "Invalid recipient email"
      /\ (last'.op = "send" /\ ~last'.handler)
          => (sending' = sending /\ last'.status \in {401, 500})
      /\ last'.op = "mail"
          => /\ sending' = sending - 1
             /\ sending > 0
             /\ \/ last'.status = 200 /\ last'.body = "ok"
                \/ last'.status = 500 /\ last'.body = "Failed to send resume email"
      /\ last'.op \notin {"send", "mail"} => sending' = sending ]_vars

\* The provider failed a dispatched email and the request was answered 500.
C20_DispatchFailed ==
  /\ last.op = "mail"
  /\ last.status = 500
  /\ sending = 0

====
